---- MODULE Spec2Model ----
(***************************************************************************)
(* Model of rimusic-convert (src/src/main.rs): the paginated fetch loops   *)
(* of SpotifyAPI, the export loop export_to_csv with its csv writer, the   *)
(* projection of a track to a 19-field row, and main.                      *)
(*                                                                         *)
(* Text is a sequence of one-character strings, so that replace, join and  *)
(* to_string are computed on characters.  An Option is a sequence of       *)
(* length 0 (None) or 1 (Some).                                            *)
(***************************************************************************)
EXTENDS Integers, Sequences, FiniteSets

(* ----------------------------- bounds ---------------------------------- *)

\* Requests issued in one run before the run is cut off.
MaxRequests == 4

\* Longest artist list drawn for the projection inputs.
MaxArtists == 2

(* ------------------------- program constants --------------------------- *)

PlaylistDelay == 2
TrackDelay == 1
SuccessLow == 200
SuccessHigh == 299

(* ------------------------------ options -------------------------------- *)

None == << >>
Some(v) == << v >>
IsSome(o) == Len(o) > 0
UnwrapOr(o, d) == IF Len(o) = 0 THEN d ELSE o[1]

(* ------------------------------- text ---------------------------------- *)

Empty == << >>
Digits == << "0", "1", "2", "3", "4", "5", "6", "7", "8", "9" >>

RECURSIVE U64ToString(_)
U64ToString(n) ==
    IF n < 10 THEN << Digits[n + 1] >>
    ELSE U64ToString(n \div 10) \o << Digits[(n % 10) + 1] >>

BoolToString(b) ==
    IF b THEN << "t", "r", "u", "e" >> ELSE << "f", "a", "l", "s", "e" >>

Separator == << ",", " " >>
Unknown == << "U", "n", "k", "n", "o", "w", "n" >>
NoImage == << "N", "o", " ", "I", "m", "a", "g", "e" >>
Extension == << ".", "c", "s", "v" >>

\* str::replace("/", "_"): every '/' becomes '_', the other characters stay.
Replace(s) == [i \in 1..Len(s) |-> IF s[i] = "/" THEN "_" ELSE s[i]]

\* format!("{}.csv", playlist.name.replace("/", "_"))
FileName(name) == Replace(name) \o Extension

\* [String]::join(sep): the first element, then sep and the element for each
\* of the others; the empty string for an empty list.
RECURSIVE JoinFrom(_, _, _)
JoinFrom(strs, i, sep) ==
    IF i > Len(strs) THEN Empty
    ELSE sep \o strs[i] \o JoinFrom(strs, i + 1, sep)

Join(strs, sep) ==
    IF Len(strs) = 0 THEN Empty ELSE strs[1] \o JoinFrom(strs, 2, sep)

\* A faulty join_artist_uris: an artist without a uri is left out.
join_artist_uris_present(artists) ==
    LET with == SelectSeq(artists, LAMBDA a : IsSome(a.uri))
    IN  Join([i \in 1..Len(with) |-> with[i].uri[1]], Separator)

join_artist_uris(artists) ==
    Join([i \in 1..Len(artists) |-> UnwrapOr(artists[i].uri, Empty)], Separator)

join_artist_names(artists) ==
    Join([i \in 1..Len(artists) |-> UnwrapOr(artists[i].name, Empty)], Separator)

\* chrono::Utc::now().to_string(), the clock counted in seconds of the run.
TimeString(t) == << "T" >> \o U64ToString(t)

\* A column title is kept as one token: nothing processes its characters.
Header ==
    << << "Track URI" >>, << "Track Name" >>, << "Artist URI(s)" >>,
       << "Artist Name(s)" >>, << "Album URI" >>, << "Album Name" >>,
       << "Album Artist URI(s)" >>, << "Album Artist Name(s)" >>,
       << "Album Release Date" >>, << "Album Image URL" >>,
       << "Disc Number" >>, << "Track Number" >>,
       << "Track Duration (ms)" >>, << "Track Preview URL" >>,
       << "Explicit" >>, << "Popularity" >>, << "ISRC" >>, << "Added By" >>,
       << "Added At" >> >>

\* A faulty Row: the time is written before the owner.
RowAddedAtBeforeAddedBy(track, owner, now) ==
    << UnwrapOr(track.uri, Empty),
       UnwrapOr(track.name, Empty),
       join_artist_uris(track.artists),
       join_artist_names(track.artists),
       UnwrapOr(track.album.uri, Empty),
       UnwrapOr(track.album.name, Empty),
       join_artist_uris(track.album.artists),
       join_artist_names(track.album.artists),
       UnwrapOr(track.album.release_date, Unknown),
       IF Len(track.album.images) = 0 THEN NoImage
       ELSE track.album.images[1].url,
       U64ToString(UnwrapOr(track.album.disc_number, 0)),
       U64ToString(UnwrapOr(track.album.track_number, 0)),
       U64ToString(UnwrapOr(track.duration_ms, 0)),
       UnwrapOr(track.preview_url, Empty),
       BoolToString(UnwrapOr(track.explicit, FALSE)),
       U64ToString(UnwrapOr(track.popularity, 0)),
       UnwrapOr(track.isrc, Empty),
       TimeString(now),
       owner >>

\* A faulty Row: an absent release date is written as the empty string.
RowDateDefaultEmpty(track, owner, now) ==
    << UnwrapOr(track.uri, Empty),
       UnwrapOr(track.name, Empty),
       join_artist_uris(track.artists),
       join_artist_names(track.artists),
       UnwrapOr(track.album.uri, Empty),
       UnwrapOr(track.album.name, Empty),
       join_artist_uris(track.album.artists),
       join_artist_names(track.album.artists),
       UnwrapOr(track.album.release_date, Empty),
       IF Len(track.album.images) = 0 THEN NoImage
       ELSE track.album.images[1].url,
       U64ToString(UnwrapOr(track.album.disc_number, 0)),
       U64ToString(UnwrapOr(track.album.track_number, 0)),
       U64ToString(UnwrapOr(track.duration_ms, 0)),
       UnwrapOr(track.preview_url, Empty),
       BoolToString(UnwrapOr(track.explicit, FALSE)),
       U64ToString(UnwrapOr(track.popularity, 0)),
       UnwrapOr(track.isrc, Empty),
       owner,
       TimeString(now) >>

\* The record written for one present track (the 19 expressions of the
\* array given to write_record).
Row(track, owner, now) ==
    << UnwrapOr(track.uri, Empty),
       UnwrapOr(track.name, Empty),
       join_artist_uris(track.artists),
       join_artist_names(track.artists),
       UnwrapOr(track.album.uri, Empty),
       UnwrapOr(track.album.name, Empty),
       join_artist_uris(track.album.artists),
       join_artist_names(track.album.artists),
       UnwrapOr(track.album.release_date, Unknown),
       IF Len(track.album.images) = 0 THEN NoImage
       ELSE track.album.images[1].url,
       U64ToString(UnwrapOr(track.album.disc_number, 0)),
       U64ToString(UnwrapOr(track.album.track_number, 0)),
       U64ToString(UnwrapOr(track.duration_ms, 0)),
       UnwrapOr(track.preview_url, Empty),
       BoolToString(UnwrapOr(track.explicit, FALSE)),
       U64ToString(UnwrapOr(track.popularity, 0)),
       UnwrapOr(track.isrc, Empty),
       owner,
       TimeString(now) >>

(* --------------------------- wire data --------------------------------- *)

StartUrl == "https://api.spotify.com/v1/me/playlists?limit=50"
PlaylistCursors == { "playlists?offset=50", "playlists?offset=100" }
TrackCursors == { "tracks?offset=100", "tracks?offset=200" }

ArtAlice == [uri |-> Some(<< "a", "1" >>), name |-> Some(<< "A", "l", "i", "c", "e" >>)]
ArtBob == [uri |-> Some(<< "a", "2" >>), name |-> Some(<< "B", "o", "b" >>)]
ArtAnon == [uri |-> None, name |-> None]

AlbumFull ==
    [uri |-> Some(<< "l", "1" >>), name |-> Some(<< "L", "P" >>),
     release_date |-> Some(<< "1", "9", "9", "9" >>),
     artists |-> << ArtAlice >>,
     images |-> << [url |-> << "i", "1" >>], [url |-> << "i", "2" >>] >>,
     disc_number |-> Some(1), track_number |-> Some(12)]

AlbumBare ==
    [uri |-> None, name |-> None, release_date |-> None, artists |-> << >>,
     images |-> << >>, disc_number |-> None, track_number |-> None]

TrackFull ==
    [uri |-> Some(<< "t", "1" >>), name |-> Some(<< "S", "o", "n", "g" >>),
     artists |-> << ArtAlice, ArtBob >>, album |-> AlbumFull,
     duration_ms |-> Some(205), popularity |-> Some(7),
     isrc |-> Some(<< "Q", "Z" >>), preview_url |-> Some(<< "p", "1" >>),
     explicit |-> Some(TRUE)]

TrackBare ==
    [uri |-> None, name |-> None, artists |-> << >>, album |-> AlbumBare,
     duration_ms |-> None, popularity |-> None, isrc |-> None,
     preview_url |-> None, explicit |-> None]

ItemNull == [track |-> None]
ItemFull == [track |-> Some(TrackFull)]
ItemBare == [track |-> Some(TrackBare)]

PlayAB ==
    [name |-> << "A", "/", "B" >>, owner |-> [display_name |-> << "a", "l" >>],
     tracks |-> [href |-> "playlists/1/tracks"]]
PlayA_B ==
    [name |-> << "A", "_", "B" >>, owner |-> [display_name |-> << "b", "o" >>],
     tracks |-> [href |-> "playlists/2/tracks"]]
PlayC ==
    [name |-> << "C" >>, owner |-> [display_name |-> << "a", "l" >>],
     tracks |-> [href |-> "playlists/3/tracks"]]

\* The item lists a page of each collection may carry.
PlaylistPages == { << >>, << PlayAB >>, << PlayAB, PlayA_B >>, << PlayC >> }
TrackPages ==
    { << >>, << ItemNull >>, << ItemFull, ItemNull >>,
      << ItemBare, ItemNull, ItemFull >> }

\* A response body: text that is the JSON of a page envelope, or text that
\* is not.
PageBody(items, next) ==
    [json |-> TRUE, items |-> items, next |-> next, text |-> "page"]
Garbage == [json |-> FALSE, items |-> << >>, next |-> None, text |-> "<html>"]
RateBody == [json |-> FALSE, items |-> << >>, next |-> None, text |-> "slow down"]
NoBody == [json |-> FALSE, items |-> << >>, next |-> None, text |-> ""]

PageBodies(pages, cursors) ==
    { PageBody(items, next) :
        items \in pages, next \in { None } \cup { Some(c) : c \in cursors } }

\* What the transport hands back for one GET: a transport failure, or a
\* status with the whole body.
Http(status, body) == [net |-> TRUE, status |-> status, body |-> body]
NetFailure == [net |-> FALSE, status |-> 0, body |-> NoBody]

Responses(pages, cursors) ==
    { Http(200, b) : b \in PageBodies(pages, cursors) }
    \cup { Http(200, Garbage), Http(429, RateBody),
           Http(429, PageBody(<< >>, None)), NetFailure }

(* ------------------------------ errors --------------------------------- *)

NoError == [kind |-> "none", status |-> 0, body |-> NoBody]
\* format!("Failed request: {}: {}", status, body).into()
RequestError(status, body) == [kind |-> "request", status |-> status, body |-> body]
\* the serde_json error: the cause, without the text that was parsed
DecodeError == [kind |-> "decode", status |-> 0, body |-> NoBody]
\* the reqwest error of send() or text()
TransportError == [kind |-> "transport", status |-> 0, body |-> NoBody]
\* the csv error of from_path, write_record or flush
SinkError == [kind |-> "sink", status |-> 0, body |-> NoBody]

\* Lines of the error channel.
HttpLine(status, body) == [msg |-> "HTTP", status |-> status, body |-> body]
DeserLine == [msg |-> "Deserialization error", status |-> 0, body |-> NoBody]
BodyLine(body) == [msg |-> "Response body", status |-> 0, body |-> body]
\* main returning Err: the runtime prints the error's Debug form
ErrorLine(err) == [msg |-> "Error", status |-> err.status, body |-> err.body]

\* A faulty is_success: every status from 200 up passes.
is_success_lax(status) == status >= SuccessLow

\* StatusCode::is_success
is_success(status) == status >= SuccessLow /\ status <= SuccessHigh

\* serde_json::from_str of a page envelope
from_str(body) ==
    IF body.json THEN [ok |-> TRUE, items |-> body.items, next |-> body.next]
    ELSE [ok |-> FALSE, items |-> << >>, next |-> None]

Outcome(ok, items, next, err, log) ==
    [ok |-> ok, items |-> items, next |-> next, err |-> err, log |-> log]

\* SpotifyAPI::get, from the answer of send() on: the page or the error,
\* and the lines put on the error channel.
Get(resp) ==
    IF ~resp.net THEN Outcome(FALSE, << >>, None, TransportError, << >>)
    ELSE IF ~is_success(resp.status)
    THEN Outcome(FALSE, << >>, None, RequestError(resp.status, resp.body),
                 << HttpLine(resp.status, resp.body) >>)
    ELSE LET parsed == from_str(resp.body)
         IN  IF parsed.ok
             THEN Outcome(TRUE, parsed.items, parsed.next, NoError, << >>)
             ELSE Outcome(FALSE, << >>, None, DecodeError,
                          << DeserLine, BodyLine(resp.body) >>)

\* The body of the loop of get_playlist_tracks, from the answer of send()
\* to the parsed page.
TrackPage(resp) ==
    IF ~resp.net THEN Outcome(FALSE, << >>, None, TransportError, << >>)
    ELSE IF ~is_success(resp.status)
    THEN Outcome(FALSE, << >>, None, RequestError(resp.status, resp.body),
                 << HttpLine(resp.status, resp.body) >>)
    ELSE LET parsed == from_str(resp.body)
         IN  IF parsed.ok
             THEN Outcome(TRUE, parsed.items, parsed.next, NoError, << >>)
             ELSE Outcome(FALSE, << >>, None, DecodeError, << >>)

(* ------------------------------- state --------------------------------- *)

VARIABLES
    pc,          \* where the run is: a loop head, an await, or the end
    next,        \* the pending cursor of the fetch loop (next / next_url)
    acc,         \* the accumulator of the fetch loop (playlists / all_tracks)
    inflight,    \* the URL of the outstanding request, if any
    playlists,   \* main's playlists, once get_all_playlists returned
    idx,         \* position of the for loop over playlists (1-based)
    tracks,      \* export_to_csv's tracks, once get_playlist_tracks returned
    tj,          \* position of the for loop over tracks (1-based)
    writer,      \* the open csv writer: its file and its unflushed records
    disk,        \* file name -> records in the file
    stderr,      \* lines put on the error channel
    stdout,      \* lines printed
    result,      \* what main returned
    clock,       \* seconds slept so far
    nreq,        \* requests issued in the run
    fetch,       \* which fetch is running, or failed: "playlists", "tracks"
    fetchReqs,   \* URLs requested by the current fetch, in order
    fetchPages,  \* pages the current fetch received, in order
    fetchDelays, \* sleeps the current fetch started
    lastResp,    \* the answer to the latest request
    flushed,     \* playlist position -> records its file held when flushed
    ops          \* file operations and requests so far, with their playlist

vars ==
    << pc, next, acc, inflight, playlists, idx, tracks, tj, writer, disk,
       stderr, stdout, result, clock, nreq, fetch, fetchReqs, fetchPages,
       fetchDelays, lastResp, flushed, ops >>

Running == [ok |-> FALSE, done |-> FALSE, err |-> NoError]
Ok == [ok |-> TRUE, done |-> TRUE, err |-> NoError]
Err(e) == [ok |-> FALSE, done |-> TRUE, err |-> e]

Op(kind, playlist) == [kind |-> kind, playlist |-> playlist]

\* The file `file` holding `records` (created if it was not there).
Put(d, file, records) ==
    [f \in (DOMAIN d) \cup { file } |-> IF f = file THEN records ELSE d[f]]

\* A faulty Flush: a buffer holding the header alone is not written.
FlushUnlessHeaderOnly(w, d) ==
    IF Len(w.buf) <= 1 THEN d ELSE Put(d, w.file, d[w.file] \o w.buf)

\* csv::Writer::flush: the buffered records go to the file.
Flush(w, d) == Put(d, w.file, d[w.file] \o w.buf)

\* The writer going out of scope: csv::Writer's Drop flushes what is
\* buffered, ignoring errors.
DropWriter(w, d) == IF IsSome(w) THEN Flush(w[1], d) ELSE d

EmptyMap == [f \in {} |-> << >>]

Init ==
    /\ pc = "pl_top"
    /\ next = Some(StartUrl)
    /\ acc = << >>
    /\ inflight = None
    /\ playlists = << >>
    /\ idx = 1
    /\ tracks = << >>
    /\ tj = 1
    /\ writer = None
    /\ disk = EmptyMap
    /\ stderr = << >>
    /\ stdout = << >>
    /\ result = Running
    /\ clock = 0
    /\ nreq = 0
    /\ fetch = "playlists"
    /\ fetchReqs = << >>
    /\ fetchPages = << >>
    /\ fetchDelays = 0
    /\ lastResp = NetFailure
    /\ flushed = EmptyMap
    /\ ops = << >>

\* An error reaching main through the `?`s: the writer in scope is dropped,
\* main returns Err and the runtime prints it.
Fail(err, log) ==
    /\ pc' = "failed"
    /\ result' = Err(err)
    /\ stderr' = stderr \o log \o << ErrorLine(err) >>
    /\ disk' = DropWriter(writer, disk)
    /\ writer' = None
    /\ inflight' = None

(* ------------------------ get_all_playlists ---------------------------- *)

\* A faulty Extend: the page's items replace what is accumulated.
ExtendReplacing(list, items) == items

\* Vec::extend: the page's items go after what is accumulated.
Extend(list, items) == list \o items

\* A faulty ShouldSleep: no sleep is taken.
ShouldSleepNever(cursor) == FALSE

\* A faulty ShouldSleep: the sleep is taken after every page.
ShouldSleepAlways(cursor) == TRUE

\* if next.is_some() { sleep(..).await }
ShouldSleep(cursor) == IsSome(cursor)

\* while let Some(url) = next: self.get(&url) sends the request.
PlSend ==
    /\ pc = "pl_top"
    /\ IsSome(next)
    /\ nreq < MaxRequests
    /\ pc' = "pl_wait"
    /\ inflight' = next
    /\ nreq' = nreq + 1
    /\ fetchReqs' = Append(fetchReqs, next[1])
    /\ ops' = Append(ops, Op("request", 0))
    /\ UNCHANGED << next, acc, playlists, idx, tracks, tj, writer, disk,
                    stderr, stdout, result, clock, fetch, fetchPages,
                    fetchDelays, lastResp, flushed >>

\* The answer arrives: get finishes, and on a page the loop body runs up to
\* its sleep or to the loop head.
PlRecv ==
    /\ pc = "pl_wait"
    /\ \E resp \in Responses(PlaylistPages, PlaylistCursors) :
         LET r == Get(resp)
         IN  /\ lastResp' = resp
             /\ IF r.ok
                THEN /\ acc' = Extend(acc, r.items)
                     /\ next' = r.next
                     /\ fetchPages' = Append(fetchPages, [items |-> r.items, next |-> r.next])
                     /\ inflight' = None
                     /\ IF ShouldSleep(r.next)
                        THEN pc' = "pl_sleep" /\ fetchDelays' = fetchDelays + 1
                        ELSE pc' = "pl_top" /\ fetchDelays' = fetchDelays
                     /\ UNCHANGED << writer, disk, stderr, result >>
                ELSE /\ Fail(r.err, r.log)
                     /\ UNCHANGED << acc, next, fetchPages, fetchDelays >>
    /\ UNCHANGED << playlists, idx, tracks, tj, stdout, clock, nreq, fetch,
                    fetchReqs, flushed, ops >>

\* sleep(Duration::from_secs(2)) is over.
PlWake ==
    /\ pc = "pl_sleep"
    /\ pc' = "pl_top"
    /\ clock' = clock + PlaylistDelay
    /\ UNCHANGED << next, acc, inflight, playlists, idx, tracks, tj, writer,
                    disk, stderr, stdout, result, nreq, fetch, fetchReqs,
                    fetchPages, fetchDelays, lastResp, flushed, ops >>

\* A faulty PlReturn: the loop is left after a page whatever its next says.
PlReturnAfterAnyPage ==
    /\ pc = "pl_top"
    /\ Len(fetchPages) >= 1
    /\ playlists' = acc
    /\ idx' = 1
    /\ pc' = "ex_top"
    /\ fetch' = "none"
    /\ stdout' = Append(stdout, [msg |-> "Exporting playlists to CSV...", file |-> Empty])
    /\ UNCHANGED << next, acc, inflight, tracks, tj, writer, disk, stderr,
                    result, clock, nreq, fetchReqs, fetchPages, fetchDelays,
                    lastResp, flushed, ops >>

\* Ok(playlists): main goes on to export_to_csv, which prints its banner.
PlReturn ==
    /\ pc = "pl_top"
    /\ ~IsSome(next)
    /\ playlists' = acc
    /\ idx' = 1
    /\ pc' = "ex_top"
    /\ fetch' = "none"
    /\ stdout' = Append(stdout, [msg |-> "Exporting playlists to CSV...", file |-> Empty])
    /\ UNCHANGED << next, acc, inflight, tracks, tj, writer, disk, stderr,
                    result, clock, nreq, fetchReqs, fetchPages, fetchDelays,
                    lastResp, flushed, ops >>

(* --------------------------- export_to_csv ----------------------------- *)

\* for playlist in playlists: Writer::from_path(&file_name) creates the file,
\* or empties the one that is there; it can fail.
ExCreate ==
    /\ pc = "ex_top"
    /\ idx <= Len(playlists)
    /\ LET file == FileName(playlists[idx].name)
       IN  \E ok \in BOOLEAN :
             IF ok
             THEN /\ disk' = Put(disk, file, << >>)
                  /\ writer' = Some([file |-> file, buf |-> << >>])
                  /\ pc' = "ex_header"
                  /\ ops' = Append(ops, Op("create", idx))
                  /\ UNCHANGED << stderr, result, inflight >>
             ELSE /\ Fail(SinkError, << >>)
                  /\ ops' = ops
    /\ tracks' = << >>
    /\ tj' = 1
    /\ UNCHANGED << next, acc, playlists, idx, stdout, clock, nreq, fetch,
                    fetchReqs, fetchPages, fetchDelays, lastResp, flushed >>

\* writer.write_record(header), then the call of get_playlist_tracks up to
\* its loop head.
ExHeader ==
    /\ pc = "ex_header"
    /\ writer' = Some([writer[1] EXCEPT !.buf = Append(@, Header)])
    /\ ops' = Append(ops, Op("header", idx))
    /\ acc' = << >>
    /\ next' = Some(playlists[idx].tracks.href)
    /\ fetch' = "tracks"
    /\ fetchReqs' = << >>
    /\ fetchPages' = << >>
    /\ fetchDelays' = 0
    /\ pc' = "tr_top"
    /\ UNCHANGED << inflight, playlists, idx, tracks, tj, disk, stderr,
                    stdout, result, clock, nreq, lastResp, flushed >>

(* ------------------------ get_playlist_tracks -------------------------- *)

\* A faulty TrSend: the sleep is not awaited, the request goes out while
\* it runs.
TrSendDuringSleep ==
    /\ pc = "tr_top" \/ pc = "tr_sleep"
    /\ IsSome(next)
    /\ nreq < MaxRequests
    /\ pc' = "tr_wait"
    /\ inflight' = next
    /\ nreq' = nreq + 1
    /\ fetchReqs' = Append(fetchReqs, next[1])
    /\ ops' = Append(ops, Op("request", idx))
    /\ UNCHANGED << next, acc, playlists, idx, tracks, tj, writer, disk,
                    stderr, stdout, result, clock, fetch, fetchPages,
                    fetchDelays, lastResp, flushed >>

\* while let Some(current_url) = next_url: the request is sent.
TrSend ==
    /\ pc = "tr_top"
    /\ IsSome(next)
    /\ nreq < MaxRequests
    /\ pc' = "tr_wait"
    /\ inflight' = next
    /\ nreq' = nreq + 1
    /\ fetchReqs' = Append(fetchReqs, next[1])
    /\ ops' = Append(ops, Op("request", idx))
    /\ UNCHANGED << next, acc, playlists, idx, tracks, tj, writer, disk,
                    stderr, stdout, result, clock, fetch, fetchPages,
                    fetchDelays, lastResp, flushed >>

\* The answer arrives: status, body, parse, extend, next_url, up to the
\* sleep or the loop head.
TrRecv ==
    /\ pc = "tr_wait"
    /\ \E resp \in Responses(TrackPages, TrackCursors) :
         LET r == TrackPage(resp)
         IN  /\ lastResp' = resp
             /\ IF r.ok
                THEN /\ acc' = Extend(acc, r.items)
                     /\ next' = r.next
                     /\ fetchPages' = Append(fetchPages, [items |-> r.items, next |-> r.next])
                     /\ inflight' = None
                     /\ IF ShouldSleep(r.next)
                        THEN pc' = "tr_sleep" /\ fetchDelays' = fetchDelays + 1
                        ELSE pc' = "tr_top" /\ fetchDelays' = fetchDelays
                     /\ UNCHANGED << writer, disk, stderr, result >>
                ELSE /\ Fail(r.err, r.log)
                     /\ UNCHANGED << acc, next, fetchPages, fetchDelays >>
    /\ UNCHANGED << playlists, idx, tracks, tj, stdout, clock, nreq, fetch,
                    fetchReqs, flushed, ops >>

\* sleep(Duration::from_secs(1)) is over.
TrWake ==
    /\ pc = "tr_sleep"
    /\ pc' = "tr_top"
    /\ clock' = clock + TrackDelay
    /\ UNCHANGED << next, acc, inflight, playlists, idx, tracks, tj, writer,
                    disk, stderr, stdout, result, nreq, fetch, fetchReqs,
                    fetchPages, fetchDelays, lastResp, flushed, ops >>

\* Ok(all_tracks): export_to_csv binds tracks and starts the loop over them.
TrReturn ==
    /\ pc = "tr_top"
    /\ ~IsSome(next)
    /\ tracks' = acc
    /\ tj' = 1
    /\ pc' = "ex_rows"
    /\ fetch' = "none"
    /\ UNCHANGED << next, acc, inflight, playlists, idx, writer, disk,
                    stderr, stdout, result, clock, nreq, fetchReqs,
                    fetchPages, fetchDelays, lastResp, flushed, ops >>

(* ---------------------- export_to_csv, the rows ------------------------ *)

\* A faulty RowsOf: an absent track is written as a record of one empty
\* field.
RowsOfBlankForAbsent(item, owner, now) ==
    IF IsSome(item.track) THEN << Row(item.track[1], owner, now) >>
    ELSE << << Empty >> >>

\* What one track_item adds to the writer's records: a row for a present
\* track, nothing for an absent one.
RowsOf(item, owner, now) ==
    IF IsSome(item.track) THEN << Row(item.track[1], owner, now) >> ELSE << >>

\* for track_item in tracks: one turn of the loop.
ExRow ==
    /\ pc = "ex_rows"
    /\ tj <= Len(tracks)
    /\ LET new == RowsOf(tracks[tj], playlists[idx].owner.display_name, clock)
       IN  /\ writer' = Some([writer[1] EXCEPT !.buf = @ \o new])
           /\ ops' = IF new = << >> THEN ops ELSE Append(ops, Op("row", idx))
    /\ tj' = tj + 1
    /\ UNCHANGED << pc, next, acc, inflight, playlists, idx, tracks, disk,
                    stderr, stdout, result, clock, nreq, fetch, fetchReqs,
                    fetchPages, fetchDelays, lastResp, flushed >>

\* A faulty ExFlush: flush() is not called, the records reach the file only
\* when the writer is dropped at the end of the turn.
ExFlushLeftToDrop ==
    /\ pc = "ex_rows"
    /\ tj > Len(tracks)
    /\ disk' = DropWriter(writer, disk)
    /\ writer' = None
    /\ stdout' = Append(stdout, [msg |-> "Finished writing", file |-> writer[1].file])
    /\ idx' = idx + 1
    /\ pc' = "ex_top"
    /\ UNCHANGED << next, acc, inflight, playlists, tracks, tj, stderr,
                    result, clock, nreq, fetch, fetchReqs, fetchPages,
                    fetchDelays, lastResp, flushed, ops >>

\* writer.flush() and the println; the writer is dropped at the end of the
\* turn.  A flush that fails leaves the file as it was.
ExFlush ==
    /\ pc = "ex_rows"
    /\ tj > Len(tracks)
    /\ \E ok \in BOOLEAN :
         IF ok
         THEN /\ disk' = Flush(writer[1], disk)
              /\ writer' = None
              /\ flushed' = Put(flushed, idx, Flush(writer[1], disk)[writer[1].file])
              /\ stdout' = Append(stdout, [msg |-> "Finished writing", file |-> writer[1].file])
              /\ ops' = Append(ops, Op("flush", idx))
              /\ idx' = idx + 1
              /\ pc' = "ex_top"
              /\ UNCHANGED << stderr, result, inflight >>
         ELSE /\ pc' = "failed"
              /\ result' = Err(SinkError)
              /\ stderr' = Append(stderr, ErrorLine(SinkError))
              /\ writer' = None
              /\ UNCHANGED << disk, flushed, stdout, ops, idx, inflight >>
    /\ UNCHANGED << next, acc, playlists, tracks, tj, clock, nreq, fetch,
                    fetchReqs, fetchPages, fetchDelays, lastResp >>

\* Ok(()) of export_to_csv: main prints and returns Ok.
ExFinish ==
    /\ pc = "ex_top"
    /\ idx > Len(playlists)
    /\ pc' = "done"
    /\ result' = Ok
    /\ stdout' = Append(stdout, [msg |-> "All playlists backed up successfully.", file |-> Empty])
    /\ UNCHANGED << next, acc, inflight, playlists, idx, tracks, tj, writer,
                    disk, stderr, clock, nreq, fetch, fetchReqs, fetchPages,
                    fetchDelays, lastResp, flushed, ops >>

Next ==
    \/ PlSend
    \/ PlRecv
    \/ PlWake
    \/ PlReturn
    \/ ExCreate
    \/ ExHeader
    \/ TrSend
    \/ TrRecv
    \/ TrWake
    \/ TrReturn
    \/ ExRow
    \/ ExFlush
    \/ ExFinish

Spec == Init /\ [][Next]_vars

(* ------------------- the projection on drawn tracks -------------------- *)

Opt(v) == { None, Some(v) }

ArtNoName == [uri |-> Some(<< "a", "3" >>), name |-> None]
Artists == { ArtAlice, ArtBob, ArtAnon, ArtNoName }
ArtistLists == UNION { [1..k -> Artists] : k \in 0..MaxArtists }

ImageLists ==
    { << >>, << [url |-> << "i", "1" >>] >>,
      << [url |-> << "i", "2" >>], [url |-> << "i", "1" >>] >> }

\* Tracks with every optional scalar present or absent, and no image, one or
\* two.
ScalarTracks ==
    { [uri |-> u, name |-> n, artists |-> << ArtAlice >>,
       album |-> [uri |-> au, name |-> an, release_date |-> rd,
                  artists |-> << ArtBob >>, images |-> im,
                  disc_number |-> dn, track_number |-> tn],
       duration_ms |-> du, popularity |-> po, isrc |-> is,
       preview_url |-> pv, explicit |-> ex] :
        u \in Opt(<< "t", "1" >>), n \in Opt(<< "S", "o", "n", "g" >>),
        au \in Opt(<< "l", "1" >>), an \in Opt(<< "L", "P" >>),
        rd \in Opt(<< "1", "9", "9", "9" >>), im \in ImageLists,
        dn \in Opt(2), tn \in Opt(12), du \in Opt(205), po \in Opt(70),
        is \in Opt(<< "Q", "Z" >>), pv \in Opt(<< "p", "1" >>),
        ex \in { None, Some(TRUE), Some(FALSE) } }

\* Tracks with every artist list, and every album artist list, up to
\* MaxArtists.
ArtistTracks ==
    { [TrackFull EXCEPT !.artists = a, !.album.artists = b] :
        a \in ArtistLists, b \in ArtistLists }

\* export_to_csv at its loop over the tracks of the one playlist PlayC, whose
\* track collection came as one page holding one drawn track.
InitProject ==
    \E t \in ScalarTracks \cup ArtistTracks :
      LET items == << [track |-> Some(t)] >>
          file == FileName(PlayC.name)
      IN  /\ pc = "ex_rows"
          /\ next = None
          /\ acc = items
          /\ inflight = None
          /\ playlists = << PlayC >>
          /\ idx = 1
          /\ tracks = items
          /\ tj = 1
          /\ writer = Some([file |-> file, buf |-> << Header >>])
          /\ disk = Put(EmptyMap, file, << >>)
          /\ stderr = << >>
          /\ stdout = << [msg |-> "Exporting playlists to CSV...", file |-> Empty] >>
          /\ result = Running
          /\ clock = 0
          /\ nreq = 2
          /\ fetch = "none"
          /\ fetchReqs = << PlayC.tracks.href >>
          /\ fetchPages = << [items |-> items, next |-> None] >>
          /\ fetchDelays = 0
          /\ lastResp = Http(200, PageBody(items, None))
          /\ flushed = EmptyMap
          /\ ops = << Op("request", 0), Op("create", 1), Op("header", 1),
                      Op("request", 1) >>

NextProject ==
    \/ ExRow
    \/ ExFlush
    \/ ExFinish

SpecProject == InitProject /\ [][NextProject]_vars

(* ------------------------------ claims --------------------------------- *)

RECURSIVE Flatten(_)
Flatten(pages) ==
    IF Len(pages) = 0 THEN << >>
    ELSE pages[1].items \o Flatten(Tail(pages))

\* A fetch has just returned Ok: get_all_playlists to main, or
\* get_playlist_tracks to export_to_csv.
PlaylistsReturned == (pc = "ex_top" \/ pc = "ex_header") /\ idx = 1
TracksReturned == pc = "ex_rows"
FetchReturned == PlaylistsReturned \/ TracksReturned
Returned == IF TracksReturned THEN tracks ELSE playlists
FetchStart == IF TracksReturned THEN playlists[idx].tracks.href ELSE StartUrl

\* C1: a fetch that returned after N >= 1 pages, the last with an absent
\* next, returned the concatenation of the N pages' items in page order, and
\* issued N requests: the first to the start URL, the i-th to the cursor of
\* page i-1.
C1_FetchConcatenatesPages ==
    FetchReturned =>
        LET n == Len(fetchPages)
        IN  /\ n >= 1
            /\ fetchPages[n].next = None
            /\ \A i \in 1..(n - 1) : fetchPages[i].next # None
            /\ Returned = Flatten(fetchPages)
            /\ Len(fetchReqs) = n
            /\ fetchReqs[1] = FetchStart
            /\ \A i \in 2..n : fetchPages[i - 1].next = << fetchReqs[i] >>

\* Both loops ran over two pages: three playlists need two playlist pages,
\* five track entries need two track pages.
C1_Witness ==
    /\ TracksReturned
    /\ Len(playlists) = 3
    /\ Len(fetchPages) = 2
    /\ Len(tracks) = 5
    /\ fetchReqs[2] # fetchReqs[1]

PagesWithNext == { i \in 1..Len(fetchPages) : fetchPages[i].next # None }

\* C2: the sleeps a fetch started are as many as the pages it received with
\* a present next; it sleeps only right after such a page, with no request
\* outstanding; a fetch that returned after N pages slept N-1 times; and one
\* empty page with an absent next gives an empty result, one request, no
\* sleep and no error.
C2_DelayOnlyBetweenPages ==
    /\ fetchDelays = Cardinality(PagesWithNext)
    /\ (pc = "pl_sleep" \/ pc = "tr_sleep") =>
          /\ Len(fetchPages) >= 1
          /\ fetchPages[Len(fetchPages)].next # None
          /\ Len(fetchReqs) = Len(fetchPages)
          /\ inflight = None
    /\ FetchReturned => fetchDelays = Len(fetchPages) - 1
    /\ (FetchReturned /\ fetchPages = << [items |-> << >>, next |-> None] >>) =>
          /\ Returned = << >>
          /\ Len(fetchReqs) = 1
          /\ fetchDelays = 0
          /\ pc # "failed"
          /\ ~result.done

\* A track fetch over two pages returned, having slept once, for one second.
C2_Witness ==
    /\ TracksReturned
    /\ Len(playlists) = 1
    /\ Len(fetchPages) = 2
    /\ fetchDelays = 1
    /\ clock = 1

NonSuccess == lastResp.net /\ ~(lastResp.status \in 200..299)

\* C3: once a page request is answered with a non-success status, the run
\* has failed with the error carrying that status and body, the fetch made
\* no request after the failing one and started no sleep after it, nothing
\* more can happen, and the caller received no items.
C3_NonSuccessAborts ==
    NonSuccess =>
        /\ pc = "failed"
        /\ result = Err(RequestError(lastResp.status, lastResp.body))
        /\ fetch \in { "playlists", "tracks" }
        /\ Len(fetchReqs) = Len(fetchPages) + 1
        /\ fetchDelays = Len(fetchPages)
        /\ inflight = None
        /\ ~ENABLED Next
        /\ fetch = "playlists" => playlists = << >>
        /\ fetch = "tracks" =>
              /\ tracks = << >>
              /\ \A i \in 1..Len(ops) :
                    ~(ops[i].kind = "row" /\ ops[i].playlist = idx)

\* The second page of a track fetch was answered 429 after a first page that
\* carried items.
C3_Witness ==
    /\ NonSuccess
    /\ lastResp.status = 429
    /\ fetch = "tracks"
    /\ Len(fetchPages) = 1
    /\ Len(acc) > 0
    /\ pc = "failed"

FileOf(k) == FileName(playlists[k].name)

\* C4: when a track-page fetch fails, no file operation has created or
\* completed a table for the playlist in progress, and every file on disk is
\* the file of a playlist that was flushed, holding what was flushed.
C4_AllOrNothingPerPlaylist ==
    (pc = "failed" /\ fetch = "tracks") =>
        /\ \A i \in 1..Len(ops) :
              ~(ops[i].playlist = idx /\ ops[i].kind \in { "create", "flush" })
        /\ \A f \in DOMAIN disk :
              \E j \in DOMAIN flushed : FileOf(j) = f /\ disk[f] = flushed[j]

\* C5: when the run fails while exporting playlist k, main returned Err,
\* nothing more can happen, no request or file operation was made for a
\* playlist after k, and the file of each playlist before k holds exactly
\* what it held when it was flushed.
C5_FirstErrorAbortsNoRollback ==
    (pc = "failed" /\ fetch # "playlists") =>
        /\ result.done /\ ~result.ok
        /\ ~ENABLED Next
        /\ \A i \in 1..Len(ops) : ops[i].playlist <= idx
        /\ \A j \in 1..(idx - 1) :
              /\ j \in DOMAIN flushed
              /\ FileOf(j) \in DOMAIN disk
              /\ disk[FileOf(j)] = flushed[j]

\* The present tracks of the fetched collection, in order.
PresentTracks == SelectSeq(tracks, LAMBDA item : item.track # None)

\* C6: while the rows of a playlist are written and when its table is
\* flushed, the records after the header are one row per entry with a
\* present track, in the order of the fetched collection, and an entry
\* with an absent track adds nothing and fails nothing.
C6_NullTrackSkippedOrderKept ==
    /\ (pc = "ex_rows" /\ tj > Len(tracks)) =>
          /\ writer # None
          /\ Len(writer[1].buf) = 1 + Len(PresentTracks)
          /\ writer[1].buf[1] = Header
          /\ \A i \in 1..Len(PresentTracks) :
                writer[1].buf[i + 1] =
                    Row(PresentTracks[i].track[1],
                        playlists[idx].owner.display_name, clock)
    /\ (pc = "ex_top" /\ idx > 1) =>
          /\ (idx - 1) \in DOMAIN flushed
          /\ disk[FileOf(idx - 1)] = flushed[idx - 1]
          /\ Len(flushed[idx - 1]) = 1 + Len(PresentTracks)
          /\ \A i \in 1..Len(PresentTracks) :
                flushed[idx - 1][i + 1] =
                    Row(PresentTracks[i].track[1],
                        playlists[idx - 1].owner.display_name, clock)

\* Five entries, two of them with an absent track, were flushed as three
\* rows.
C6_Witness ==
    /\ pc = "ex_top"
    /\ idx = 2
    /\ Len(tracks) = 5
    /\ Cardinality({ i \in 1..5 : tracks[i].track = None }) = 2
    /\ Len(disk[FileOf(1)]) = 4
    /\ disk[FileOf(1)][2] # disk[FileOf(1)][3]

\* C7: after a successful run every playlist has its own file, named by its
\* sanitized name, holding what was flushed for that playlist.
C7_OneFilePerPlaylist ==
    pc = "done" =>
        /\ Cardinality(DOMAIN disk) = Len(playlists)
        /\ \A k \in 1..Len(playlists) :
              /\ FileOf(k) \in DOMAIN disk
              /\ disk[FileOf(k)] = flushed[k]

DecodeFailure ==
    lastResp.net /\ lastResp.status \in 200..299 /\ ~lastResp.body.json

\* C8: once a successful response of either fetch fails to parse, the run
\* has failed with the decode error, the raw body is on the error channel
\* before the error is reported, and the fetch made no request after it.
C8_DecodeFailureLogsBody ==
    DecodeFailure =>
        /\ pc = "failed"
        /\ result = Err(DecodeError)
        /\ \E i \in 1..Len(stderr) :
              /\ stderr[i] = BodyLine(lastResp.body)
              /\ \E j \in (i + 1)..Len(stderr) : stderr[j].msg = "Error"
        /\ Len(fetchReqs) = Len(fetchPages) + 1
        /\ ~ENABLED Next

\* The row of the one drawn track has been written.
RowWritten ==
    /\ pc = "ex_rows"
    /\ Len(tracks) = 1
    /\ tj = 2
    /\ tracks[1].track # None
    /\ writer # None
    /\ Len(writer[1].buf) = 2
TheTrack == tracks[1].track[1]
TheRow == writer[1].buf[2]

\* The decimal text of the numbers the drawn tracks carry.
Decimal(n) ==
    CASE n = 1 -> << "1" >>
      [] n = 2 -> << "2" >>
      [] n = 7 -> << "7" >>
      [] n = 12 -> << "1", "2" >>
      [] n = 70 -> << "7", "0" >>
      [] n = 205 -> << "2", "0", "5" >>

TextOr(o, d) == IF o = None THEN d ELSE o[1]
NumberOr(o, d) == IF o = None THEN d ELSE Decimal(o[1])

\* C9: in the row of a present track every optional field stands for
\* itself: absent text gives the empty string, an absent release date
\* "Unknown", an absent number "0", an absent explicit "false", no image
\* "No Image" and otherwise the first image's url; a present field gives its
\* own value.
C9_DefaultSubstitution ==
    RowWritten =>
        LET t == TheTrack
            r == TheRow
        IN  /\ Len(r) = 19
            /\ r[1] = TextOr(t.uri, << >>)
            /\ r[2] = TextOr(t.name, << >>)
            /\ r[5] = TextOr(t.album.uri, << >>)
            /\ r[6] = TextOr(t.album.name, << >>)
            /\ r[9] = TextOr(t.album.release_date,
                             << "U", "n", "k", "n", "o", "w", "n" >>)
            /\ r[10] = IF t.album.images = << >>
                       THEN << "N", "o", " ", "I", "m", "a", "g", "e" >>
                       ELSE t.album.images[1].url
            /\ r[11] = NumberOr(t.album.disc_number, << "0" >>)
            /\ r[12] = NumberOr(t.album.track_number, << "0" >>)
            /\ r[13] = NumberOr(t.duration_ms, << "0" >>)
            /\ r[14] = TextOr(t.preview_url, << >>)
            /\ r[15] = IF t.explicit = << TRUE >>
                       THEN << "t", "r", "u", "e" >>
                       ELSE << "f", "a", "l", "s", "e" >>
            /\ r[16] = NumberOr(t.popularity, << "0" >>)
            /\ r[17] = TextOr(t.isrc, << >>)

\* The row of a track with every optional field absent and no image.
C9_Witness ==
    /\ RowWritten
    /\ TheTrack.uri = None /\ TheTrack.name = None
    /\ TheTrack.isrc = None /\ TheTrack.preview_url = None
    /\ TheTrack.duration_ms = None /\ TheTrack.popularity = None
    /\ TheTrack.explicit = None
    /\ TheTrack.album.uri = None /\ TheTrack.album.name = None
    /\ TheTrack.album.release_date = None
    /\ TheTrack.album.disc_number = None
    /\ TheTrack.album.track_number = None
    /\ TheTrack.album.images = << >>
    /\ TheRow[9] = << "U", "n", "k", "n", "o", "w", "n" >>
    /\ TheRow[13] = << "0" >>

UrisOf(artists) == [i \in 1..Len(artists) |-> TextOr(artists[i].uri, << >>)]
NamesOf(artists) == [i \in 1..Len(artists) |-> TextOr(artists[i].name, << >>)]

\* Where element i starts in the join of elems: after the elements before
\* it, each followed by a two-character separator.
RECURSIVE Offset(_, _)
Offset(elems, i) ==
    IF i = 1 THEN 0 ELSE Offset(elems, i - 1) + Len(elems[i - 1]) + 2

\* text is the elements in order with ", " between neighbours and nothing
\* else: k elements and max(k-1, 0) separators.
IsJoinOf(text, elems) ==
    LET k == Len(elems)
    IN  IF k = 0 THEN text = << >>
        ELSE /\ Len(text) = Offset(elems, k) + Len(elems[k])
             /\ \A i \in 1..k :
                   SubSeq(text, Offset(elems, i) + 1,
                          Offset(elems, i) + Len(elems[i])) = elems[i]
             /\ \A i \in 1..(k - 1) :
                   SubSeq(text, Offset(elems, i) + Len(elems[i]) + 1,
                          Offset(elems, i) + Len(elems[i]) + 2) = << ",", " " >>

AliceAndBob == << ArtAlice, ArtBob >>
A1A2 == << "a", "1", ",", " ", "a", "2" >>
AliceBob == << "A", "l", "i", "c", "e", ",", " ", "B", "o", "b" >>

\* C10: in the row of a present track the artist columns are the joins of
\* the uris and of the names of track.artists, and the album artist columns
\* those of track.album.artists, each list joined on its own: elements in
\* list order, an absent uri or name as an empty element, ", " between
\* neighbours; Alice (a1) and Bob (a2) give "a1, a2" and "Alice, Bob".
C10_ArtistJoin ==
    RowWritten =>
        LET t == TheTrack
            r == TheRow
        IN  /\ IsJoinOf(r[3], UrisOf(t.artists))
            /\ IsJoinOf(r[4], NamesOf(t.artists))
            /\ IsJoinOf(r[7], UrisOf(t.album.artists))
            /\ IsJoinOf(r[8], NamesOf(t.album.artists))
            /\ t.artists = AliceAndBob => (r[3] = A1A2 /\ r[4] = AliceBob)
            /\ t.album.artists = AliceAndBob => (r[7] = A1A2 /\ r[8] = AliceBob)

\* The row of a track by Alice and Bob on an album by an artist with neither
\* uri nor name and Bob.
C10_Witness ==
    /\ RowWritten
    /\ TheTrack.artists = AliceAndBob
    /\ TheTrack.album.artists = << ArtAnon, ArtBob >>
    /\ TheRow[3] = A1A2
    /\ TheRow[4] = AliceBob
    /\ TheRow[7] = << ",", " ", "a", "2" >>
    /\ TheRow[8] = << ",", " ", "B", "o", "b" >>

\* The playlists whose table is open: created, and neither flushed nor
\* dropped by the end of the run.
OpenTables ==
    IF pc = "failed" \/ pc = "done" THEN { }
    ELSE { k \in 1..Len(playlists) :
             /\ \E i \in 1..Len(ops) : ops[i] = Op("create", k)
             /\ ~\E i \in 1..Len(ops) : ops[i] = Op("flush", k) }

\* The place of a step in the turn of one playlist.
StepRank(kind) ==
    CASE kind = "create" -> 1
      [] kind = "header" -> 2
      [] kind = "request" -> 3
      [] kind = "row" -> 4
      [] kind = "flush" -> 5

FinishedLines == SelectSeq(stdout, LAMBDA line : line.msg = "Finished writing")

\* C11: at most one table is open, and it is the table of the playlist in
\* turn; the steps of the run go playlist by playlist in the order of the
\* fetched list: within a playlist create, header, requests, rows, flush in
\* that order, create, header and flush once each, and no step of playlist
\* k+1 before the flush of playlist k.
C11_ExclusiveSequentialTables ==
    /\ Cardinality(OpenTables) <= 1
    /\ writer # None <=> OpenTables # { }
    /\ writer # None => (OpenTables = { idx } /\ writer[1].file = FileOf(idx))
    /\ \A i, j \in 1..Len(ops) :
          i < j =>
             /\ ops[i].playlist <= ops[j].playlist
             /\ (ops[i].playlist = ops[j].playlist /\ ops[i].playlist > 0) =>
                   /\ StepRank(ops[i].kind) <= StepRank(ops[j].kind)
                   /\ ops[i].kind \in { "create", "header", "flush" } =>
                         ops[i].kind # ops[j].kind
    /\ \A j \in 1..Len(ops) :
          /\ ops[j].playlist >= 2 =>
                \E i \in 1..(j - 1) : ops[i] = Op("flush", ops[j].playlist - 1)
          /\ (ops[j].playlist >= 1 /\ ops[j].kind # "create") =>
                \E i \in 1..(j - 1) : ops[i] = Op("create", ops[j].playlist)
          /\ ops[j].playlist <= Len(playlists)
    /\ \A n \in 1..Len(FinishedLines) : FinishedLines[n].file = FileOf(n)

\* Two playlists went through all their steps, the first with rows.
C11_Witness ==
    /\ pc = "done"
    /\ Len(playlists) = 2
    /\ FileOf(1) # FileOf(2)
    /\ \E i \in 1..Len(ops) : ops[i] = Op("row", 1)
    /\ \E i \in 1..Len(ops) : ops[i] = Op("flush", 2)
    /\ Len(FinishedLines) = 2

\* The uris the tracks of the wire data carry, as the first column shows
\* them.
TrackUriColumn == { << >>, << "t", "1" >> }

\* records is a table of the playlist owned by owner: the header once, in
\* front, then rows of 19 fields with the track uri first, the owner 18th
\* and a time of the run last.
WellShaped(records, owner) ==
    /\ Len(records) >= 1
    /\ records[1] = Header
    /\ \A i \in 2..Len(records) :
          /\ records[i] # Header
          /\ Len(records[i]) = 19
          /\ records[i][1] \in TrackUriColumn
          /\ records[i][18] = owner
          /\ \E t \in 0..clock : records[i][19] = TimeString(t)

\* C12: the header has 19 columns, Track URI first, Added By 18th and
\* Added At last; the records of the table being written, of every table
\* as it was flushed and of every file start with the one header, and every
\* record after it is a row of 19 fields placed as the columns say, with
\* the owner of the table's playlist as Added By.
C12_HeaderOnceRowsOf19 ==
    /\ Len(Header) = 19
    /\ Header[1] = << "Track URI" >>
    /\ Header[18] = << "Added By" >>
    /\ Header[19] = << "Added At" >>
    /\ writer # None =>
          LET records == disk[writer[1].file] \o writer[1].buf
          IN  /\ pc = "ex_header" => records = << >>
              /\ pc # "ex_header" =>
                    WellShaped(records, playlists[idx].owner.display_name)
    /\ \A k \in DOMAIN flushed :
          WellShaped(flushed[k], playlists[k].owner.display_name)
    /\ \A f \in DOMAIN disk :
          disk[f] # << >> =>
             /\ disk[f][1] = Header
             /\ \A i \in 2..Len(disk[f]) :
                   Len(disk[f][i]) = 19 /\ disk[f][i] # Header
    /\ \A k \in 1..Len(playlists) :
          Cardinality({ i \in 1..Len(ops) : ops[i] = Op("header", k) }) <= 1

\* The table of the second playlist, owned by "bo", was flushed with two
\* rows after a first table owned by "al".
C12_Witness ==
    /\ pc = "ex_top"
    /\ idx = 3
    /\ Len(flushed[1]) >= 2
    /\ flushed[1][2][18] = << "a", "l" >>
    /\ Len(flushed[2]) = 3
    /\ flushed[2][2][18] = << "b", "o" >>
    /\ flushed[2][3][18] = << "b", "o" >>
    /\ flushed[2][2][1] # flushed[2][3][1]

\* The fetch loop is running: at its head, awaiting an answer, or asleep.
InLoop == pc \in { "pl_top", "pl_wait", "pl_sleep", "tr_top", "tr_wait", "tr_sleep" }

\* The pages of the current fetch whose next is a URL the fetch had already
\* requested.
RevisitAt ==
    { i \in 1..Len(fetchPages) :
        /\ fetchPages[i].next # None
        /\ \E j \in 1..i : fetchReqs[j] = fetchPages[i].next[1] }
Revisited == RevisitAt # { }
FirstRevisit == CHOOSE i \in RevisitAt : \A k \in RevisitAt : i <= k
\* The request that first went to the URL the first revisit points at.
CycleStart ==
    CHOOSE j \in 1..FirstRevisit :
        /\ fetchReqs[j] = fetchPages[FirstRevisit].next[1]
        /\ \A k \in 1..(j - 1) : fetchReqs[k] # fetchReqs[j]
CycleLength == FirstRevisit - CycleStart + 1

\* The server gave the same page whenever the fetch asked the same URL.
SameAnswers ==
    \A i, j \in 1..Len(fetchPages) :
        fetchReqs[i] = fetchReqs[j] => fetchPages[i] = fetchPages[j]

\* What both the claim and its amendment say of returning and of a fetch
\* whose cursor came back to a visited URL, the server answering a URL as
\* it did before: the fetch returns exactly on a page with an absent next;
\* after the revisit it has not returned, a request is due at every loop
\* head, every page received was followed by a sleep, and the requests and
\* pages go round the cycle.
CursorChainDecides ==
    /\ FetchReturned => fetchPages[Len(fetchPages)].next = None
    /\ (pc = "pl_top" /\ next = None) => ENABLED PlReturn
    /\ (pc = "tr_top" /\ next = None) => ENABLED TrReturn
    /\ (InLoop /\ next # None) => (~ENABLED PlReturn /\ ~ENABLED TrReturn)
    /\ (Revisited /\ SameAnswers) =>
          /\ ~FetchReturned
          /\ pc = "failed" \/ InLoop
          /\ InLoop =>
                /\ next # None
                /\ fetchDelays = Len(fetchPages)
                /\ (pc = "pl_top" /\ nreq < MaxRequests) => ENABLED PlSend
                /\ (pc = "tr_top" /\ nreq < MaxRequests) => ENABLED TrSend
          /\ \A m \in (FirstRevisit + 1)..Len(fetchReqs) :
                fetchReqs[m] =
                    fetchReqs[CycleStart + ((m - FirstRevisit - 1) % CycleLength)]
          /\ \A m \in (FirstRevisit + 1)..Len(fetchPages) :
                fetchPages[m] =
                    fetchPages[CycleStart + ((m - FirstRevisit - 1) % CycleLength)]

\* C13 as claimed: the cursor chain decides, and after a revisit the
\* accumulator grows without bound: the pages of the cycle, which come
\* again and again, carry at least one item.
C13_RevisitGrowsWithoutBound ==
    /\ CursorChainDecides
    /\ (Revisited /\ SameAnswers) =>
          \E m \in CycleStart..FirstRevisit : fetchPages[m].items # << >>

\* C13 as amended: the cursor chain decides, and while the loop runs the
\* accumulator holds the items of all pages received, so after a revisit
\* each round of the cycle adds the items of the cycle's pages: nothing
\* when they are all empty.
C13_RevisitNeverReturns ==
    /\ CursorChainDecides
    /\ InLoop => acc = Flatten(fetchPages)
    /\ (InLoop /\ Revisited /\ SameAnswers) =>
          Len(acc) >=
             Cardinality({ m \in 1..Len(fetchPages) : fetchPages[m].items # << >> })

\* The playlist fetch got the page of one cursor twice, the cursor pointing
\* at itself, and sleeps before asking it a third time, with three
\* playlists accumulated.
C13_Witness ==
    /\ pc = "pl_sleep"
    /\ Revisited /\ SameAnswers
    /\ Len(fetchPages) = 3
    /\ fetchReqs[2] = fetchReqs[3]
    /\ fetchPages[2].next = << fetchReqs[2] >>
    /\ Len(acc) = 3

Awaiting == pc = "pl_wait" \/ pc = "tr_wait"
Sleeping == pc = "pl_sleep" \/ pc = "tr_sleep"

\* In every state: a request is outstanding exactly while the run awaits an
\* answer, it is the one request of the fetch not yet answered, and none is
\* outstanding during a sleep.
OneOutstanding ==
    /\ inflight # None <=> Awaiting
    /\ Awaiting =>
          /\ Len(fetchReqs) = Len(fetchPages) + 1
          /\ inflight = << fetchReqs[Len(fetchReqs)] >>
    /\ (~Awaiting /\ pc # "failed") => Len(fetchReqs) = Len(fetchPages)
    /\ Sleeping => inflight = None

\* In every step: a request goes out only from a loop head with none
\* outstanding; a step taken while a request is outstanding or a sleep runs
\* does no file operation, and the file changes in such a step only when
\* the answer makes the run fail and the writer is dropped.
NoOverlap ==
    /\ nreq' # nreq =>
          /\ pc = "pl_top" \/ pc = "tr_top"
          /\ inflight = None
          /\ nreq' = nreq + 1
          /\ Awaiting'
    /\ (Awaiting \/ Sleeping) =>
          /\ ops' = ops
          /\ nreq' = nreq
          /\ flushed' = flushed
    /\ Sleeping => (disk' = disk /\ writer' = writer /\ ~Awaiting')
    /\ (Awaiting /\ (disk' # disk \/ writer' # writer)) => pc' = "failed"
    /\ clock' # clock => Sleeping

\* C14: at most one request is outstanding, no request goes out during a
\* sleep, and no file is created, written or flushed while a request is
\* outstanding or a sleep runs.
C14_OneRequestAtATime == [] OneOutstanding /\ [][NoOverlap]_vars

\* The second request of a track fetch is outstanding, after a sleep, with
\* the playlist's table open.
C14_Witness ==
    /\ pc = "tr_wait"
    /\ writer # None
    /\ Len(fetchPages) = 1
    /\ fetchDelays = 1
    /\ clock >= 1
    /\ inflight = fetchPages[1].next

ExportOps == { i \in 1..Len(ops) : ops[i].playlist >= 1 }

\* C15: while the playlist collection is fetched, and when that fetch
\* fails, there is no file, no open table, no track request and no file
\* operation; the first step of the export comes after the fetch returned
\* on a page with an absent next, with the playlists of all its pages, and
\* no request of the playlist collection follows a step of the export.
C15_ListingBeforeExport ==
    /\ fetch = "playlists" =>
          /\ DOMAIN disk = { }
          /\ DOMAIN flushed = { }
          /\ writer = None
          /\ ExportOps = { }
          /\ playlists = << >>
          /\ stdout = << >>
    /\ (pc = "failed" /\ fetch = "playlists") =>
          /\ result.done /\ ~result.ok
          /\ Len(ops) = Len(fetchReqs)
          /\ Len(fetchReqs) = Len(fetchPages) + 1
    /\ (ExportOps # { } \/ DOMAIN disk # { }) =>
          /\ fetch # "playlists"
          /\ Len(stdout) >= 1
          /\ stdout[1].msg = "Exporting playlists to CSV..."
    /\ \A i, j \in 1..Len(ops) :
          (i < j /\ ops[j].playlist = 0) => ops[i].playlist = 0
    /\ PlaylistsReturned =>
          /\ fetchPages[Len(fetchPages)].next = None
          /\ playlists = Flatten(fetchPages)
          /\ Cardinality({ i \in 1..Len(ops) : ops[i].playlist = 0 }) = Len(fetchPages)

\* The second page of the playlist collection did not parse, after a first
\* page that carried playlists: the run ended with no file.
C15_Witness ==
    /\ pc = "failed"
    /\ fetch = "playlists"
    /\ Len(fetchPages) = 1
    /\ Len(acc) >= 1
    /\ DecodeFailure
    /\ DOMAIN disk = { }
    /\ Len(ops) = 2

CreateOps == { i \in 1..Len(ops) : ops[i].kind = "create" }

\* C16: when the table of a playlist with no entry, or with only entries
\* whose track is absent, is flushed, its file exists and holds the header
\* and nothing else; and between playlists and at the end of a successful
\* run there is one creation per playlist exported and the files are those
\* named by the exported playlists, whatever tracks they hold.
C16_EmptyPlaylistGetsHeaderOnlyFile ==
    /\ (pc = "ex_top" /\ idx > 1 /\ PresentTracks = << >>) =>
          /\ FileOf(idx - 1) \in DOMAIN disk
          /\ disk[FileOf(idx - 1)] = << Header >>
          /\ flushed[idx - 1] = << Header >>
    /\ pc = "ex_top" =>
          /\ Cardinality(CreateOps) = idx - 1
          /\ DOMAIN disk = { FileOf(k) : k \in 1..(idx - 1) }
    /\ pc = "done" =>
          /\ idx = Len(playlists) + 1
          /\ Cardinality(CreateOps) = Len(playlists)
          /\ DOMAIN disk = { FileOf(k) : k \in 1..Len(playlists) }
          /\ \A f \in DOMAIN disk : Len(disk[f]) >= 1 /\ disk[f][1] = Header

\* Two playlists with different names were exported, the first with no row,
\* the second with one entry whose track is absent: two files, the header
\* alone in each.
C16_Witness ==
    /\ pc = "ex_top"
    /\ idx = 3
    /\ tracks = << ItemNull >>
    /\ flushed[1] = << Header >>
    /\ Cardinality(DOMAIN disk) = 2
    /\ \A f \in DOMAIN disk : disk[f] = << Header >>

====
